---- MODULE Spec2Model ----
(***************************************************************************)
(* Model of the crawl engine of BeanO (data_collection/crawling/           *)
(* web_crawler.py): the frontier loop of WebCrawler.crawl_website and      *)
(* WebCrawler.discover_links_only, the page fetch (_fetch_page,            *)
(* _fetch_static_content, _fetch_dynamic_content) run by the thread pool,  *)
(* and the shared redirect cache, renderer and configuration they touch;  *)
(* and, each on its own, detect_js_dependency, _smart_url_join and         *)
(* StructuredDataExtractor.extract_structured_data.                        *)
(*                                                                         *)
(* A URL is a record [host, path, ext, frag].  A web site is a function    *)
(* from URLs (without fragment) to the response the server gives, plus the *)
(* redirect table of the server.                                           *)
(***************************************************************************)
EXTENDS Integers, Sequences, FiniteSets, TLC

(***************************************************************************)
(* Bounds of the model.                                                    *)
(***************************************************************************)
MaxPagesBound == 4
MaxWorkersBound == 2
MaxRuns == 2
MaxItems == 2
MaxSegments == 4

(***************************************************************************)
(* URLs.                                                                   *)
(***************************************************************************)
U(h, p) == [host |-> h, path |-> p, ext |-> "", frag |-> ""]
UF(h, p, f) == [host |-> h, path |-> p, ext |-> "", frag |-> f]
UE(h, p, e) == [host |-> h, path |-> p, ext |-> e, frag |-> ""]

A == "a.com"
B == "b.com"

\* urlparse(url).netloc
Netloc(u) == u.host

\* what the server sees of a URL: the fragment is never sent
Bare(u) == [u EXCEPT !.frag = ""]

\* CrawlConfig.__post_init__ defaults
AllowedExtensions == {".html", ".htm", ".php", ".asp", ".aspx", ".jsp", ""}
BlockedExtensions == {".pdf", ".jpg", ".jpeg", ".png", ".gif", ".css", ".js",
                      ".xml", ".zip", ".doc", ".docx", ".svg", ".ico"}

(***************************************************************************)
(* Server responses.  status 0 stands for a network error or timeout (the  *)
(* GET raises requests.RequestException).  js is the verdict of            *)
(* detect_js_dependency on the static HTML; render, renderUrl and          *)
(* renderLinks say what the headless browser gives for the page; raises    *)
(* says that post-processing of the page inside _fetch_page throws.        *)
(***************************************************************************)
Html(links) ==
    [status |-> 200, html |-> TRUE, empty |-> FALSE, links |-> links,
     raises |-> FALSE, js |-> FALSE, render |-> "null",
     renderUrl |-> U(A, "/"), renderLinks |-> << >>]

Status(code) == [Html(<< >>) EXCEPT !.status = code]
NonHtml == [Html(<< >>) EXCEPT !.html = FALSE]
Empty == [Html(<< >>) EXCEPT !.empty = TRUE]
Raising == [Html(<< >>) EXCEPT !.raises = TRUE]
Moved(links) == [Html(links) EXCEPT !.status = 301]
Js(links, outcome, rurl, rlinks) ==
    [Html(links) EXCEPT !.js = TRUE, !.render = outcome,
                        !.renderUrl = rurl, !.renderLinks = rlinks]

NoLoc == << >>

Root == U(A, "/")
P1 == U(A, "/p1")
P2 == U(A, "/p2")
P3 == U(A, "/p3")
X0 == U(B, "/")
X1 == U(B, "/x1")

\* a start page linking to two pages, one of which links on
SiteStar ==
    [pages |-> (Root :> Html(<<P1, P2>>)) @@ (P1 :> Html(<<P3, P2>>))
               @@ (P2 :> Html(<< >>)) @@ (P3 :> Html(<<UF(A, "/", "top")>>)),
     loc |-> NoLoc]

\* P1 redirects to P3, P2 links to P3
SiteRedirect ==
    [pages |-> (Root :> Html(<<P1, P2>>)) @@ (P1 :> Moved(<<P3>>))
               @@ (P2 :> Html(<<P3>>)) @@ (P3 :> Html(<<UF(A, "/p2", "top")>>)),
     loc |-> (P1 :> P3)]

\* P1 redirects to P3, which is not HTML; P2 links to P3
SiteRedirectNonHtml ==
    [pages |-> (Root :> Html(<<P1, P2>>)) @@ (P1 :> Moved(<< >>))
               @@ (P2 :> Html(<<P3, UE(A, "/menu", ".pdf")>>)) @@ (P3 :> NonHtml),
     loc |-> (P1 :> P3)]

\* P1 redirects to another host, whose page links inside that host
SiteExternal ==
    [pages |-> (Root :> Html(<<P1, X1>>)) @@ (P1 :> Moved(<< >>))
               @@ (X0 :> Html(<<X1, P2>>)) @@ (X1 :> Html(<< >>))
               @@ (P2 :> Html(<< >>)),
     loc |-> (P1 :> X0)]

\* failing pages: HTTP 500, network error, exception in the worker
SiteFailures ==
    [pages |-> (Root :> Html(<<P1, P2, P3>>)) @@ (P1 :> Status(500))
               @@ (P2 :> Html(<<P1, U(A, "/p4")>>)) @@ (P3 :> Status(0))
               @@ (U(A, "/p4") :> Raising),
     loc |-> NoLoc]

\* the start page itself is unreachable
SiteDown ==
    [pages |-> (Root :> Status(404)), loc |-> NoLoc]

\* pages that need rendering: two render (one of them ends at another
\* URL), for one the browser cannot start, for one the renderer fails
SiteDynamic ==
    [pages |-> (Root :> Js(<< >>, "ok", Root, <<P1, P2>>))
               @@ (P1 :> Js(<<P3>>, "ok", U(A, "/p1r"), <<P3, P2>>))
               @@ (P2 :> Js(<< >>, "initfail", P2, << >>))
               @@ (P3 :> Js(<< >>, "raise", P3, << >>)),
     loc |-> NoLoc]

\* redirects and failures together: P1 redirects to P2, which is also
\* linked directly; P4 redirects to P3, which answers 500; P5 is empty
SiteMixed ==
    [pages |-> (Root :> Html(<<P1, P2, P3>>)) @@ (P1 :> Moved(<<P2>>))
               @@ (P2 :> Html(<<P1, U(A, "/p4"), U(A, "/p5"), Root>>))
               @@ (P3 :> Status(500)) @@ (U(A, "/p4") :> Moved(<< >>))
               @@ (U(A, "/p5") :> Empty),
     loc |-> (P1 :> P2) @@ (U(A, "/p4") :> P3)]

\* two pages of one batch need rendering, and both render
SiteDynamicPair ==
    [pages |-> (Root :> Html(<<P1, P2>>))
               @@ (P1 :> Js(<< >>, "ok", P1, <<P2>>))
               @@ (P2 :> Js(<< >>, "ok", P2, << >>)),
     loc |-> NoLoc]

Sites == {SiteStar, SiteRedirect, SiteRedirectNonHtml, SiteExternal,
          SiteFailures, SiteDown, SiteDynamic, SiteDynamicPair, SiteMixed}

NotFound == Status(404)

\* the response of the server for the URL itself, redirects not followed
Resp(s, u) == IF Bare(u) \in DOMAIN s.pages THEN s.pages[Bare(u)] ELSE NotFound

\* the URL a redirect-following client ends at
RECURSIVE FinalUrl(_, _)
FinalUrl(s, u) ==
    IF Bare(u) \in DOMAIN s.loc THEN FinalUrl(s, s.loc[Bare(u)]) ELSE u

(***************************************************************************)
(* URL policy and link extraction.                                         *)
(***************************************************************************)
\* WebCrawler._normalize_url: the fragment is removed when normalize_urls
Normalize(u, normalizeUrls) ==
    IF normalizeUrls THEN [u EXCEPT !.frag = ""] ELSE u

\* WebCrawler._is_valid_url: domain restriction and extension policy
IsValidUrl(u, baseDomain, followExternal) ==
    /\ followExternal \/ Netloc(u) = baseDomain
    /\ u.ext = "" \/ u.ext \notin BlockedExtensions
    /\ \/ "" \in AllowedExtensions
       \/ u.ext \in AllowedExtensions
       \/ u.ext = ""

RECURSIVE Dedup(_, _)
Dedup(s, seen) ==
    IF s = << >> THEN << >>
    ELSE IF Head(s) \in seen THEN Dedup(Tail(s), seen)
         ELSE <<Head(s)>> \o Dedup(Tail(s), seen \cup {Head(s)})

Range(s) == {s[i] : i \in 1..Len(s)}

\* WebCrawler._extract_links / _extract_links_with_metadata: candidates of
\* the page that pass _is_valid_url for the host of base_url, normalized
\* and deduplicated in order of appearance
ExtractLinks(raw, baseUrl, c) ==
    LET dom == Netloc(baseUrl)
        valid == SelectSeq(raw, LAMBDA l : IsValidUrl(l, dom, c.followExternal))
        norm == [i \in 1..Len(valid) |-> Normalize(valid[i], c.normalizeUrls)]
    IN Dedup(norm, {})

(***************************************************************************)
(* The static fetch.                                                       *)
(***************************************************************************)
\* Response.raise_for_status raises for 4xx and 5xx only
RaisesForStatus(code) == code >= 400 /\ code < 600

\* WebCrawler._fetch_static_content (and the GET of
\* _fetch_page_for_links_only): the response, the final URL, whether the
\* redirect is recorded and whether a page comes back
StaticFetch(s, follow, u) ==
    LET final == IF follow THEN FinalUrl(s, u) ELSE u
        r == Resp(s, final)
        answered == r.status # 0
    IN [final |-> final,
        resp |-> r,
        redirected |-> follow /\ answered /\ final # u,
        ok |-> /\ answered
               /\ ~RaisesForStatus(r.status)
               /\ r.html
               /\ ~r.empty]

(***************************************************************************)
(* The JS-dependency detector.  A page is described by what the checks of  *)
(* detect_js_dependency measure on its HTML: the texts of its <noscript>   *)
(* elements (sequences of words), the word count of the body once scripts, *)
(* styles and noscript are removed, and the elements the other checks look *)
(* for.                                                                    *)
(***************************************************************************)
\* str.lower on the words that occur in the texts
Lower(w) ==
    CASE w = "Enable" -> "enable"
      [] w = "JavaScript" -> "javascript"
      [] w = "Please" -> "please"
      [] OTHER -> w

LowerText(t) == [i \in 1..Len(t) |-> Lower(t[i])]

\* phrase in text
Contains(t, phrase) ==
    \E i \in 1..Len(t) :
        /\ i + Len(phrase) - 1 <= Len(t)
        /\ SubSeq(t, i, i + Len(phrase) - 1) = phrase

\* lines 554-562
StrongPhrases ==
    {<<"javascript", "is", "required">>, <<"enable", "javascript">>,
     <<"this", "site", "requires", "javascript">>,
     <<"javascript", "must", "be", "enabled">>, <<"turn", "on", "javascript">>,
     <<"javascript", "disabled">>, <<"js", "is", "disabled">>}

\* the case of the text kept as the page has it
CheckNoscriptCaseSensitive(page) ==
    \E i \in 1..Len(page.noscripts) :
        \E ph \in StrongPhrases : Contains(page.noscripts[i], ph)

\* _check_noscript_indicators: is_js_required
CheckNoscriptIndicators(page) ==
    \E i \in 1..Len(page.noscripts) :
        \E ph \in StrongPhrases : Contains(LowerText(page.noscripts[i]), ph)

\* _analyze_content_structure: is_minimal_content
AnalyzeContentStructure(page) ==
    IF ~page.body THEN TRUE
    ELSE LET few == page.words < 10
             thin == page.words >= 10 /\ page.words < 30 /\ page.lowRatio
             hollow == page.words < 100 /\ page.emptyContainer
         IN few \/ thin \/ hollow

\* _analyze_javascript_presence: is_js_heavy (no inline script on the page)
AnalyzeJavascriptPresence(page) == page.externalScripts > 10

\* the reduction added to the score instead of subtracted
ApplyReductionAdded(score, reduction) == score + reduction

\* line 510
ApplyReduction(score, reduction) == score - reduction

\* _check_static_site_indicators: reduction
CheckStaticSiteIndicators(page) ==
    (IF page.articleLen > 200 THEN 15 ELSE 0)
    + (IF page.navLinks > 3 THEN 10 ELSE 0)
    + (IF page.forms > 0 THEN 5 ELSE 0)
    + (IF page.metaDescLen > 50 THEN 5 ELSE 0)

\* lines 453-503: the signals in the order they are scored
Signals(page) ==
    <<[kind |-> "Strong noscript indicator", weight |-> 40,
       fires |-> CheckNoscriptIndicators(page)],
      [kind |-> "Minimal content", weight |-> 35,
       fires |-> AnalyzeContentStructure(page)],
      [kind |-> "SPA framework detected", weight |-> 25,
       fires |-> page.framework],
      [kind |-> "SPA root pattern", weight |-> 20, fires |-> page.spaRoot],
      [kind |-> "Loading indicators", weight |-> 15, fires |-> page.loading],
      [kind |-> "Client routing", weight |-> 10, fires |-> page.routing],
      [kind |-> "Heavy JS", weight |-> 8,
       fires |-> AnalyzeJavascriptPresence(page)]>>

RECURSIVE SumWeights(_)
SumWeights(sigs) ==
    IF sigs = << >> THEN 0
    ELSE (IF Head(sigs).fires THEN Head(sigs).weight ELSE 0)
         + SumWeights(Tail(sigs))

RECURSIVE KindsOf(_)
KindsOf(sigs) ==
    IF sigs = << >> THEN << >>
    ELSE (IF Head(sigs).fires THEN <<Head(sigs).kind>> ELSE << >>)
         \o KindsOf(Tail(sigs))

\* lines 453-511: js_score and evidence
Score(page) ==
    LET reduction == CheckStaticSiteIndicators(page)
        positive == SumWeights(Signals(page))
    IN IF reduction > 0 THEN ApplyReduction(positive, reduction)
       ELSE positive

Evidence(page) ==
    KindsOf(Signals(page)) \o
    (IF CheckStaticSiteIndicators(page) > 0
     THEN <<"Static patterns detected">> ELSE << >>)

\* line 529: any("Strong noscript" in ev or "Minimal content" in ev ...)
StrongEvidence(evidence) ==
    \E i \in 1..Len(evidence) :
        evidence[i] \in {"Strong noscript indicator", "Minimal content"}

\* the override of line 532 left out
DecideWithoutOverride(score, evidence, c) ==
    LET minScore == IF c.strictMode THEN c.minScore + 15 ELSE c.minScore
    IN IF score >= minScore
       THEN [isJs |-> TRUE,
             confidence |-> IF score >= minScore + 15 THEN "high"
                            ELSE "medium"]
       ELSE IF score >= c.conservativeScore /\ StrongEvidence(evidence)
       THEN [isJs |-> TRUE, confidence |-> "medium"]
       ELSE [isJs |-> FALSE, confidence |-> "low"]

\* lines 516-534: the decision
Decide(score, evidence, c) ==
    LET minScore == IF c.strictMode THEN c.minScore + 15 ELSE c.minScore
    IN IF score >= minScore
       THEN [isJs |-> TRUE,
             confidence |-> IF score >= minScore + 15 THEN "high"
                            ELSE "medium"]
       ELSE IF score >= c.conservativeScore /\ StrongEvidence(evidence)
       THEN [isJs |-> TRUE, confidence |-> "medium"]
       ELSE IF score >= 70
       THEN [isJs |-> TRUE, confidence |-> "very_high"]
       ELSE [isJs |-> FALSE, confidence |-> "low"]

NoVerdict ==
    [called |-> FALSE, scored |-> FALSE, isJs |-> FALSE, score |-> 0,
     confidence |-> "low", evidence |-> << >>]

\* detect_js_dependency
DetectJsDependency(page, c) ==
    IF page.empty THEN [NoVerdict EXCEPT !.called = TRUE]
    ELSE LET d == Decide(Score(page), Evidence(page), c)
         IN [called |-> TRUE, scored |-> TRUE, isJs |-> d.isJs,
             score |-> Score(page), confidence |-> d.confidence,
             evidence |-> Evidence(page)]

\* the pages given to the detector
EnableJs == <<"Enable", "JavaScript", "to", "view", "this", "site">>
UpgradeBrowser == <<"Please", "upgrade", "your", "browser">>

BlankPage ==
    [empty |-> FALSE, body |-> TRUE, noscripts |-> << >>, words |-> 0,
     lowRatio |-> FALSE, emptyContainer |-> FALSE, framework |-> FALSE,
     spaRoot |-> FALSE, loading |-> FALSE, routing |-> FALSE,
     externalScripts |-> 0, articleLen |-> 0, navLinks |-> 0, forms |-> 0,
     metaDescLen |-> 0]

EmptyHtml == [BlankPage EXCEPT !.empty = TRUE, !.body = FALSE]

\* the text of an article counts in the words of the body, the content ratio
\* is looked at between 10 and 29 words only, a page without body has no
\* body text
WellFormed(page) ==
    /\ page.articleLen > 0 => page.words > 0
    /\ page.lowRatio => (page.words >= 10 /\ page.words < 30)
    /\ ~page.body => (page.words = 0 /\ ~page.emptyContainer)

HtmlPages ==
    {EmptyHtml} \cup
    {page \in [empty : {FALSE}, body : BOOLEAN,
               noscripts : {<< >>, <<EnableJs>>, <<UpgradeBrowser>>},
               words : {0, 20, 50, 500}, lowRatio : BOOLEAN,
               emptyContainer : BOOLEAN, framework : BOOLEAN,
               spaRoot : BOOLEAN, loading : BOOLEAN, routing : BOOLEAN,
               externalScripts : {0, 11}, articleLen : {0, 201},
               navLinks : {0, 3, 4}, forms : {0, 1},
               metaDescLen : {0, 51}] : WellFormed(page)}

\* js_detection_min_score, js_detection_conservative_score and
\* js_detection_strict_mode; the defaults are 45, 30 and FALSE
DefaultJsConfig ==
    [minScore |-> 45, conservativeScore |-> 30, strictMode |-> FALSE]

JsConfigs ==
    [minScore : {45, 90}, conservativeScore : {30, 80}, strictMode : BOOLEAN]

(***************************************************************************)
(* The structured data extractor.  A JSON object is a function from field  *)
(* names to values.  A document is described by what the extractors find   *)
(* in it: the payloads of its JSON-LD scripts, its microdata items, its    *)
(* meta and OpenGraph tags, and what the fallback parser picks up.         *)
(***************************************************************************)
EmptyDict == << >>

\* the same entity as the network gave it and as the page embeds it
LatteIntercepted == ("@id" :> "latte") @@ ("price" :> "5")
LatteEmbedded ==
    ("@id" :> "latte") @@ ("price" :> "4") @@ ("description" :> "espresso")

JsonObjects == {LatteIntercepted, LatteEmbedded}

\* the text of a <script type="application/ld+json">: an object, an array
\* of objects, a scalar, or text that json.loads rejects
Payloads ==
    {[kind |-> "dict", data |-> <<LatteEmbedded>>],
     [kind |-> "dict", data |-> <<LatteIntercepted>>],
     [kind |-> "list", data |-> <<LatteEmbedded, LatteIntercepted>>],
     [kind |-> "scalar", data |-> << >>],
     [kind |-> "invalid", data |-> << >>]}

SeqsUpTo(S, n) == UNION {[1..k -> S] : k \in 0..n}

Documents ==
    [scripts : SeqsUpTo(Payloads, MaxItems),
     microdata : {<< >>, <<[type |-> "Product",
                            properties |-> ("name" :> "latte")]>>},
     metaTags : {EmptyDict, ("description" :> "coffee")},
     opengraph : {EmptyDict, ("title" :> "cafe")},
     products : {<< >>, <<("name" :> "latte") @@ ("price" :> "4")>>},
     organization : {EmptyDict, ("name" :> "cafe")}]

NoDocument ==
    [scripts |-> << >>, microdata |-> << >>, metaTags |-> EmptyDict,
     opengraph |-> EmptyDict, products |-> << >>,
     organization |-> EmptyDict]

\* lines 175-184
EmptyBundle ==
    [jsonLd |-> << >>, microdata |-> << >>, metaTags |-> EmptyDict,
     opengraph |-> EmptyDict, menuItems |-> << >>, products |-> << >>,
     organization |-> EmptyDict, extractionMethods |-> << >>]

\* extract_json_ld: arrays are flattened, objects appended, anything else
\* is dropped
RECURSIVE ExtractJsonLd(_)
ExtractJsonLd(scripts) ==
    IF scripts = << >> THEN << >>
    ELSE (IF Head(scripts).kind \in {"dict", "list"}
          THEN Head(scripts).data ELSE << >>)
         \o ExtractJsonLd(Tail(scripts))

\* the list assigned instead of extended
ReplaceJsonLd(current, found) == found

\* lines 188 and 194: list.extend
ExtendJsonLd(current, found) == current \o found

\* intelligent_fallback_parse: a dict that always has its three keys
IntelligentFallbackParse(d) ==
    [menuItems |-> << >>, products |-> d.products,
     organization |-> d.organization]

(***************************************************************************)
(* URL repair.  For _smart_url_join a URL string is a sequence of pieces:  *)
(* a scheme with its separator, a host name or a part of one, a path       *)
(* segment with its leading slash, a relative segment, a query, a          *)
(* fragment, or a blank.                                                     *)
(***************************************************************************)
Https == "https://"
Http == "http://"
Blank == " "

\* None
Null == <<"None">>

\* the pieces that hold a slash, and the text each has before its slash
SlashPieces == {Https, Http, "//", "/x", "/y", "/"}

\* the pieces with a dot in them; each is longer than 3 characters
DottedPieces == {"www.", A, B, "menu.html"}

RECURSIVE StripLeft(_)
StripLeft(t) ==
    IF t # << >> /\ Head(t) = Blank THEN StripLeft(Tail(t)) ELSE t

RECURSIVE StripRight(_)
StripRight(t) ==
    IF t # << >> /\ t[Len(t)] = Blank
    THEN StripRight(SubSeq(t, 1, Len(t) - 1)) ELSE t

\* str.strip
Strip(t) == StripRight(StripLeft(t))

\* str.startswith
StartsWith(t, prefix) ==
    Len(prefix) <= Len(t) /\ SubSeq(t, 1, Len(prefix)) = prefix

\* url.startswith(('http://', 'https://'))
StartsWithHttp(t) == StartsWith(t, <<Http>>) \/ StartsWith(t, <<Https>>)

\* str.count, str.find and str.rfind for a one-piece needle
Occurrences(t, piece) == {i \in 1..Len(t) : t[i] = piece}
Count(t, piece) == Cardinality(Occurrences(t, piece))
Find(t, piece) ==
    CHOOSE i \in Occurrences(t, piece) : \A j \in Occurrences(t, piece) : i <= j
RFind(t, piece) ==
    CHOOSE i \in Occurrences(t, piece) : \A j \in Occurrences(t, piece) : i >= j

\* url[i:]
From(t, i) == SubSeq(t, i, Len(t))

\* url.split(piece)[-1]
LastPartAfter(t, piece) == From(t, RFind(t, piece) + 1)

\* urlparse(base_url): scheme with separator, netloc, path
BaseScheme(base) == base[1]
BaseDomain(base) == base[2]
BasePath(base) == From(base, 3)

\* url.split('/')[0], as the pieces before the first slash
RECURSIVE FirstPart(_)
FirstPart(t) ==
    IF t = << >> \/ Head(t) \in SlashPieces THEN << >>
    ELSE <<Head(t)>> \o FirstPart(Tail(t))

\* _looks_like_domain_url
LooksLikeDomainUrl(url, domain) ==
    \/ StartsWith(url, <<"www.">>)
    \/ StartsWith(url, <<domain>>)
    \/ LET first == FirstPart(url)
       IN /\ \E i \in 1..Len(first) : first[i] \in DottedPieces
          /\ \A i \in 1..Len(first) : first[i] # Blank

\* the path of a joined URL: what follows the netloc up to query or fragment
RECURSIVE PathOf(_)
PathOf(t) ==
    IF t = << >> \/ Head(t) \in {"?q", "#s"} THEN << >>
    ELSE <<Head(t)>> \o PathOf(Tail(t))

\* urllib.parse.urljoin for the references that reach it: a reference with
\* a scheme of its own is kept, a path with a leading slash replaces the
\* path of the base, a relative segment replaces its last segment
UrlJoin(base, url) ==
    IF Head(url) = "mailto:" THEN url
    ELSE IF Head(url) \in {"/x", "/y"}
    THEN <<BaseScheme(base), BaseDomain(base)>> \o url
    ELSE LET path == BasePath(base)
             dir == IF path = << >> THEN << >>
                    ELSE SubSeq(path, 1, Len(path) - 1)
         IN <<BaseScheme(base), BaseDomain(base)>> \o dir
            \o <<"/" \o Head(url)>> \o Tail(url)

\* lines 936-953
JoinRelative(base, url) ==
    LET result == UrlJoin(base, url)
        domain == BaseDomain(base)
        path == IF StartsWithHttp(result) THEN PathOf(From(result, 3))
                ELSE << >>
    IN IF Count(path, domain) > 1
       THEN <<result[1], result[2], "/", domain>>
            \o LastPartAfter(path, domain)
            \o From(result, 3 + Len(path))
       ELSE result

\* the content after the first occurrence kept instead of the last
RepairDuplicateFirst(base, url) ==
    <<BaseScheme(base), BaseDomain(base)>>
    \o From(url, Find(url, BaseDomain(base)) + 1)

\* lines 897-911: the content after the last occurrence is kept
RepairDuplicate(base, url) ==
    <<BaseScheme(base), BaseDomain(base)>>
    \o LastPartAfter(url, BaseDomain(base))

\* the result of case 1 joined once more with the base
ReturnAbsoluteJoined(base, url) == <<BaseScheme(base), BaseDomain(base)>> \o url

\* lines 867-869
ReturnAbsolute(base, url) == url

\* _smart_url_join
SmartUrlJoin(base, potential) ==
    LET url == Strip(potential)
        domain == BaseDomain(base)
    IN IF potential = << >> \/ url = << >> THEN Null
       ELSE IF StartsWithHttp(url) THEN ReturnAbsolute(base, url)
       ELSE IF StartsWith(url, <<"//">>) THEN <<BaseScheme(base)>> \o Tail(url)
       ELSE IF LooksLikeDomainUrl(url, domain) /\ Count(url, domain) <= 1
       THEN IF StartsWith(url, <<domain>>) THEN <<BaseScheme(base)>> \o url
            ELSE <<Https>> \o url
       ELSE IF Count(url, domain) > 1 THEN RepairDuplicate(base, url)
       ELSE IF Count(url, domain) = 1
       THEN <<BaseScheme(base)>> \o From(url, Find(url, domain))
       ELSE IF StartsWith(url, <<"#s">>) \/ StartsWith(url, <<"?q">>)
       THEN base \o url
       ELSE JoinRelative(base, url)

\* the candidates: blanks around an optional scheme or //, at most n
\* segments and an optional query or fragment
Segments == {<<"www.", A>>, <<A>>, <<B>>, <<"/x">>, <<"y">>, <<"menu.html">>}

RECURSIVE SegmentSeqs(_)
SegmentSeqs(n) ==
    IF n = 0 THEN {<< >>}
    ELSE LET shorter == SegmentSeqs(n - 1)
         IN shorter \cup {seg \o t : seg \in Segments, t \in shorter}

Candidates(n) ==
    {pad \o prefix \o body \o suffix \o pad :
        pad \in {<< >>, <<Blank>>},
        prefix \in {<< >>, <<Https>>, <<Http>>, <<"//">>, <<"mailto:">>},
        body \in SegmentSeqs(n),
        suffix \in {<< >>, <<"#s">>, <<"?q">>}}
    \cup {<<"www.", A, "/x", "www.", A, "/x", "/y">>}

Bases == {<<Https, A>>, <<Http, A, "/p">>}

(***************************************************************************)
(* State.                                                                  *)
(***************************************************************************)
VARIABLES
    site,           \* the web site being crawled
    cfg,            \* CrawlConfig: maxPages, maxWorkers, followExternal,
                    \*   followRedirects, normalizeUrls
    enableDynamic,  \* CrawlConfig.enable_dynamic_rendering
    renderer,       \* the browser handles of WebCrawler.dynamic_renderer
    redirectCache,  \* WebCrawler.redirect_cache
    runs,           \* calls of crawl_website / discover_links_only so far
    prev,           \* what the previous call returned
    mode,           \* "crawl" or "discover": the call in progress
    pc,             \* position of the orchestrating thread
    startUrl,       \* start_url, normalized
    visited,        \* visited_urls
    queue,          \* urls_to_visit
    failed,         \* failed_urls
    pages,          \* all_pages (source_pages in discover_links_only)
    allLinks,       \* all_links (URLs of all_discovered_links)
    futures,        \* future_to_url: the tasks of the current batch
    cur,            \* original_url of the future being processed
    idx,            \* position in page_data['links']
    stats,          \* crawler_stats of the result
    dispatched,     \* URLs submitted to the pool in this call
    refetched,      \* URLs submitted a second time in this call
    slept           \* the orchestrating thread has slept
                    \*   delay_between_requests since the last batch

VARIABLES
    html,           \* the page given to detect_js_dependency
    jsCfg,          \* the js_detection_* settings of the configuration
    verdict         \* what detect_js_dependency computed and returned

detectVars == <<html, jsCfg, verdict>>

VARIABLES
    doc,            \* the parsed page given to extract_structured_data
    intercepted,    \* intercepted_json_ld
    bundle,         \* structured_data
    stage           \* the priority stages of extract_structured_data done

mergeVars == <<doc, intercepted, bundle, stage>>

VARIABLES
    baseUrl,        \* base_url of _smart_url_join
    candidate,      \* potential_url
    joined,         \* _smart_url_join(base_url, potential_url)
    rejoined,       \* _smart_url_join(base_url, joined)
    joinPc          \* which of the two calls have been made

joinVars == <<baseUrl, candidate, joined, rejoined, joinPc>>

crawlVars == <<site, cfg, enableDynamic, renderer, redirectCache, runs, prev,
               mode, pc,
               startUrl, visited, queue, failed, pages, allLinks, futures,
               cur, idx, stats, dispatched, refetched, slept>>

vars == <<crawlVars, detectVars, mergeVars, joinVars>>

\* what no step of a crawl changes
siteVars == <<site, cfg, detectVars, mergeVars, joinVars>>
runVars == <<runs, prev, mode, startUrl>>
frontierVars == <<visited, queue, failed, pages, allLinks>>
auditVars == <<dispatched, refetched, slept>>

Configs ==
    [maxPages : 1..MaxPagesBound, maxWorkers : 1..MaxWorkersBound,
     followExternal : BOOLEAN, followRedirects : BOOLEAN,
     normalizeUrls : BOOLEAN]

\* what a site can exercise
RawLinks(s) ==
    UNION {{s.pages[u].links[i] : i \in 1..Len(s.pages[u].links)} \cup
           {s.pages[u].renderLinks[i] : i \in 1..Len(s.pages[u].renderLinks)}
           : u \in DOMAIN s.pages}
HasExternal(s) == \E l \in RawLinks(s) : Netloc(l) # A
HasFragment(s) == \E l \in RawLinks(s) : l.frag # ""
HasRedirect(s) == DOMAIN s.loc # {}
HasJs(s) == \E u \in DOMAIN s.pages : s.pages[u].js

\* a flag departs from its CrawlConfig default (lines 32, 40, 41, 44) only
\* on a site where it makes a difference
Relevant(s, c, dyn) ==
    /\ c.followExternal => HasExternal(s)
    /\ ~c.followRedirects => HasRedirect(s)
    /\ c.normalizeUrls => HasFragment(s)
    /\ ~dyn => HasJs(s)

NoStats == [pagesCrawled |-> 0, urlsFailed |-> 0, totalUniqueLinks |-> 0,
            coverage |-> <<0, 1>>]
NoPrev == [mode |-> "none", allLinks |-> {}]

\* DynamicContentRenderer.__init__: no browser yet.  lost holds the
\* requests whose browser was started and can no longer be closed
NoBrowser ==
    [owner |-> Root, launched |-> FALSE, open |-> FALSE, lost |-> {}]

\* the detector before it is called
DetectorIdle ==
    /\ html = BlankPage
    /\ jsCfg = DefaultJsConfig
    /\ verdict = NoVerdict

\* the extractor before it is called
MergerIdle ==
    /\ doc = NoDocument
    /\ intercepted = << >>
    /\ bundle = EmptyBundle
    /\ stage = 0

\* no URL joined yet
JoinerIdle ==
    /\ baseUrl = <<Https, A>>
    /\ candidate = << >>
    /\ joined = Null
    /\ rejoined = Null
    /\ joinPc = "start"

Init ==
    /\ DetectorIdle
    /\ MergerIdle
    /\ JoinerIdle
    /\ site \in Sites
    /\ cfg \in Configs
    /\ enableDynamic \in BOOLEAN
    /\ Relevant(site, cfg, enableDynamic)
    /\ renderer = NoBrowser
    /\ redirectCache = << >>
    /\ runs = 0
    /\ prev = NoPrev
    /\ mode = "none"
    /\ pc = "idle"
    /\ startUrl = Root
    /\ visited = {}
    /\ queue = {}
    /\ failed = {}
    /\ pages = << >>
    /\ allLinks = {}
    /\ futures = << >>
    /\ cur = Root
    /\ idx = 0
    /\ stats = NoStats
    /\ dispatched = {}
    /\ refetched = {}
    /\ slept = FALSE

Min(a, b) == IF a < b THEN a ELSE b
Max(a, b) == IF a > b THEN a ELSE b

(***************************************************************************)
(* Entry points.                                                           *)
(***************************************************************************)
\* lines 1784-1793 and 1946-1955: the locals of a call
Enter(start) ==
    /\ pc = "idle" \/ (pc = "done" /\ runs < MaxRuns)
    /\ runs' = runs + 1
    /\ prev' = IF pc = "done" THEN [mode |-> mode, allLinks |-> allLinks]
               ELSE prev
    /\ startUrl' = Normalize(start, cfg.normalizeUrls)
    /\ visited' = {}
    /\ queue' = {Normalize(start, cfg.normalizeUrls)}
    /\ failed' = {}
    /\ pages' = << >>
    /\ allLinks' = {}
    /\ futures' = << >>
    /\ cur' = start
    /\ idx' = 0
    /\ stats' = NoStats
    /\ dispatched' = {}
    /\ refetched' = {}
    /\ slept' = FALSE
    /\ pc' = "loop"
    /\ UNCHANGED <<siteVars, enableDynamic, renderer, redirectCache>>

CrawlWebsite ==
    /\ mode' = "crawl"
    /\ Enter(Root)

DiscoverLinksOnly ==
    /\ mode' = "discover"
    /\ Enter(Root)

(***************************************************************************)
(* The worker tasks: _fetch_page and _fetch_page_for_links_only.           *)
(***************************************************************************)
NewFuture(u) ==
    [st |-> "run", consumed |-> FALSE, ok |-> FALSE, url |-> u,
     links |-> << >>, method |-> "none", enabledSeen |-> FALSE,
     jsSeen |-> FALSE, launch |-> "none", renderResult |-> "notcalled"]

\* the task returns None
ReturnNone(fut) == [fut EXCEPT !.st = "done", !.ok = FALSE]

\* lines 1670-1688: links are extracted against the URL of the page; an
\* exception anywhere in _fetch_page makes it return None (line 1690)
ReturnPage(fut, r, url, raw, method) ==
    IF r.raises THEN ReturnNone(fut)
    ELSE [fut EXCEPT !.st = "done", !.ok = TRUE, !.url = url,
                     !.links = ExtractLinks(raw, url, cfg),
                     !.method = method]

\* the fallback labelled as a rendered page
MethodAlwaysDynamic(outcome) == "dynamic"

\* lines 1657-1664: the label of a page for which the renderer was called
MethodAfterRender(outcome) ==
    IF outcome = "ok" THEN "dynamic" ELSE "static_fallback"

\* lines 1644-1668 up to the call of the renderer
AfterStatic(u) ==
    LET f == StaticFetch(site, cfg.followRedirects, u)
        seen == [futures[u] EXCEPT
                    !.enabledSeen = enableDynamic,
                    !.jsSeen = enableDynamic /\ f.resp.js]
    IN IF ~f.ok THEN ReturnNone(futures[u])
       ELSE IF enableDynamic /\ f.resp.js THEN [seen EXCEPT !.st = "render"]
       ELSE ReturnPage(seen, f.resp, f.final, f.resp.links, "static")

\* lines 1701-1702: the redirect is recorded by the worker thread
CacheAfter(u) ==
    LET f == StaticFetch(site, cfg.followRedirects, u)
    IN IF f.redirected THEN (u :> f.final) @@ redirectCache
       ELSE redirectCache

FetchPage(u) ==
    /\ mode = "crawl"
    /\ u \in DOMAIN futures
    /\ futures[u].st = "run"
    /\ futures' = [futures EXCEPT ![u] = AfterStatic(u)]
    /\ redirectCache' = CacheAfter(u)
    /\ UNCHANGED <<siteVars, enableDynamic, renderer,
                   runVars, pc, frontierVars, cur,
                   idx, stats, auditVars>>

\* _fetch_dynamic_content up to DynamicContentRenderer.__enter__: the
\* task enters the renderer object that all tasks share.  The browser is
\* launched when rendering is enabled and its handles replace the ones the
\* object held (lines 77-82), so that a browser still open at that moment
\* is referenced by nothing any more; a browser that fails to start
\* disables rendering in the shared configuration (line 89)
RenderEnter(u) ==
    /\ mode = "crawl"
    /\ u \in DOMAIN futures
    /\ futures[u].st = "render"
    /\ LET r == StaticFetch(site, cfg.followRedirects, u).resp
           launch == IF ~enableDynamic THEN "skipped"
                     ELSE IF r.render = "initfail" THEN "failed"
                     ELSE "ok"
       IN /\ futures' = [futures EXCEPT ![u].st = "rendering",
                                        ![u].launch = launch]
          /\ enableDynamic' = (enableDynamic /\ launch # "failed")
          /\ renderer' = IF launch = "ok"
                         THEN [owner |-> u, launched |-> TRUE, open |-> TRUE,
                               lost |-> IF renderer.open
                                        THEN renderer.lost \cup {renderer.owner}
                                        ELSE renderer.lost]
                         ELSE renderer
    /\ UNCHANGED <<siteVars, redirectCache, runVars, pc, frontierVars, cur,
                   idx, stats, auditVars>>

\* get_dynamic_content: what the renderer can give for the page.  When
\* another task has replaced or closed the handles this task launched, the
\* render may still work on the other browser or raise.
RenderOutcomes(u, r) ==
    IF futures[u].launch = "failed" THEN {"initfail"}
    ELSE IF ~enableDynamic \/ ~renderer.launched THEN {"null"}
    ELSE IF renderer.owner = u /\ renderer.open THEN {r.render}
    ELSE {IF r.render = "initfail" THEN "null" ELSE r.render, "raise"}

\* get_dynamic_content, DynamicContentRenderer.__exit__ and the rest of
\* _fetch_page: __exit__ closes the handles the shared object holds
RenderDynamic(u) ==
    /\ mode = "crawl"
    /\ u \in DOMAIN futures
    /\ futures[u].st = "rendering"
    /\ LET f == StaticFetch(site, cfg.followRedirects, u)
       IN \E out \in RenderOutcomes(u, f.resp) :
            LET fut == [futures[u] EXCEPT !.renderResult = out]
            IN futures' = [futures EXCEPT ![u] =
                    IF out = "ok"
                    THEN ReturnPage(fut, f.resp, f.resp.renderUrl,
                             f.resp.renderLinks, MethodAfterRender(out))
                    ELSE ReturnPage(fut, f.resp, f.final, f.resp.links,
                             MethodAfterRender(out))]
    /\ renderer' = [renderer EXCEPT !.open = FALSE]
    /\ UNCHANGED <<siteVars, enableDynamic, redirectCache, runVars, pc,
                   frontierVars, cur, idx, stats, auditVars>>

\* lines 2062-2108: no redirect cache, no rendering, links validated
\* against the host of the requested URL
FetchPageForLinksOnly(u) ==
    /\ mode = "discover"
    /\ u \in DOMAIN futures
    /\ futures[u].st = "run"
    /\ LET f == StaticFetch(site, cfg.followRedirects, u)
       IN futures' = [futures EXCEPT ![u] =
            IF ~f.ok \/ f.resp.raises THEN ReturnNone(futures[u])
            ELSE [futures[u] EXCEPT !.st = "done", !.ok = TRUE,
                     !.url = f.final,
                     !.links = ExtractLinks(f.resp.links, u, cfg),
                     !.method = "links_only"]]
    /\ UNCHANGED <<siteVars, enableDynamic, renderer,
                   redirectCache, runVars, pc,
                   frontierVars, cur, idx, stats, auditVars>>

(***************************************************************************)
(* The orchestrating thread.                                               *)
(***************************************************************************)
\* the loop runs until the queue is empty
LoopConditionNoCap == queue # {}

\* line 1804 / 1961
LoopCondition == queue # {} /\ Cardinality(visited) < cfg.maxPages

\* the slice of line 1806 forgotten: the whole queue is one batch
BatchesAll(q, n) == {q}

\* line 1806: list(urls_to_visit)[:max_workers]; the order of a set is
\* arbitrary, so any max_workers elements may come first
Batches(q, n) == {b \in SUBSET q : Cardinality(b) = Min(n, Cardinality(q))}

\* line 1807 forgotten: the batch stays in the queue
DrainKept(q, batch) == q

\* line 1807
Drain(q, batch) == q \ batch

\* the filter of line 1815 forgotten: the whole batch is submitted
SubmittedAll(batch, vis, fld) == batch

\* line 1815: the URLs of the batch that are submitted
Submitted(batch, vis, fld) == {u \in batch : u \notin vis /\ u \notin fld}

StartBatch(batch) ==
    /\ pc = "loop"
    /\ LoopCondition
    /\ batch \in Batches(queue, cfg.maxWorkers)
    /\ queue' = Drain(queue, batch)
    /\ LET sub == Submitted(batch, visited, failed)
       IN /\ futures' = [u \in sub |-> NewFuture(u)]
          /\ refetched' = refetched \cup (sub \cap dispatched)
          /\ dispatched' = dispatched \cup sub
    /\ slept' = FALSE
    /\ pc' = "wait"
    /\ UNCHANGED <<siteVars, enableDynamic, renderer,
                   redirectCache, runVars, visited,
                   failed, pages, allLinks, cur, idx, stats>>

\* lines 1881-1908: the result
Finish ==
    /\ pc = "loop"
    /\ ~LoopCondition
    /\ stats' = [pagesCrawled |-> Len(pages),
                 urlsFailed |-> Cardinality(failed),
                 totalUniqueLinks |-> Cardinality(allLinks),
                 coverage |-> <<Len(pages), Max(Cardinality(allLinks), 1)>>]
    /\ pc' = "done"
    /\ UNCHANGED <<siteVars, enableDynamic, renderer, redirectCache, runVars,
                   frontierVars, futures, cur, idx, auditVars>>

\* the failure not recorded
MarkFailedLost(fld, u) == fld

\* lines 1868 and 1874 / 2012 and 2022
MarkFailed(fld, u) == fld \cup {u}

PageOf(u) ==
    [url |-> futures[u].url, original |-> u, links |-> futures[u].links,
     method |-> futures[u].method, ok |-> futures[u].ok]

\* lines 1818-1830 and 1867-1870; 1975-1989 and 2011-2018
AsCompleted(u) ==
    /\ pc = "wait"
    /\ u \in DOMAIN futures
    /\ futures[u].st = "done"
    /\ ~futures[u].consumed
    /\ futures' = [futures EXCEPT ![u].consumed = TRUE]
    /\ cur' = u
    /\ idx' = 1
    /\ IF futures[u].ok
       THEN /\ pages' = Append(pages, PageOf(u))
            /\ visited' = IF mode = "crawl"
                          THEN visited \cup {u, futures[u].url}
                          ELSE visited \cup {u}
            /\ failed' = failed
            /\ pc' = IF futures[u].links = << >> THEN "wait" ELSE "links"
       ELSE /\ pages' = IF mode = "crawl" THEN pages
                        ELSE Append(pages, PageOf(u))
            /\ visited' = visited \cup {u}
            /\ failed' = MarkFailed(failed, u)
            /\ pc' = "wait"
    /\ UNCHANGED <<siteVars, enableDynamic, renderer,
                   redirectCache, runVars, queue,
                   allLinks, stats, auditVars>>

CurLink == futures[cur].links[idx]

\* lines 1841-1843 / 2007-2009
Crawlable(link) ==
    /\ link \notin visited
    /\ link \notin failed
    /\ Cardinality(visited) < cfg.maxPages

\* the redirect check left out
IsDuplicateNever(link, cache, vis) == FALSE

\* lines 1846-1851
IsDuplicate(link, cache, vis) ==
    \E c \in DOMAIN cache : cache[c] = link /\ c \in vis

NextLink ==
    IF idx = Len(futures[cur].links)
    THEN pc' = "wait" /\ idx' = idx
    ELSE pc' = "links" /\ idx' = idx + 1

\* one iteration of the loop of lines 1837-1860 / 1992-2010
ProcessLink ==
    /\ pc = "links"
    /\ allLinks' = allLinks \cup {CurLink}
    /\ IF mode = "crawl"
       THEN queue' = IF /\ Crawlable(CurLink)
                        /\ ~IsDuplicate(CurLink, redirectCache, visited)
                        /\ CurLink \notin queue
                     THEN queue \cup {CurLink} ELSE queue
       ELSE queue' = IF /\ Netloc(CurLink) = Netloc(startUrl)
                        /\ Crawlable(CurLink)
                     THEN queue \cup {CurLink} ELSE queue
    /\ NextLink
    /\ UNCHANGED <<siteVars, enableDynamic, renderer,
                   redirectCache, runVars, visited,
                   failed, pages, futures, cur, stats, auditVars>>

\* the same iteration when a worker of the batch records a redirect while
\* line 1847 iterates over the cache: the dictionary changes size during
\* the iteration, the RuntimeError is caught at line 1872 and the URL
\* being processed is marked failed (line 1874)
ProcessLinkRace(w) ==
    /\ pc = "links"
    /\ mode = "crawl"
    /\ Crawlable(CurLink)
    /\ w \in DOMAIN futures
    /\ futures[w].st = "run"
    /\ StaticFetch(site, cfg.followRedirects, w).redirected
    /\ w \notin DOMAIN redirectCache
    /\ futures' = [futures EXCEPT ![w] = AfterStatic(w)]
    /\ redirectCache' = CacheAfter(w)
    /\ allLinks' = allLinks \cup {CurLink}
    /\ failed' = MarkFailed(failed, cur)
    /\ pc' = "wait"
    /\ UNCHANGED <<siteVars, enableDynamic, renderer,
                   runVars, visited, queue, pages,
                   cur, idx, stats, auditVars>>

\* as_completed is exhausted and the executor's with block has joined
BatchComplete(futs) == \A u \in DOMAIN futs : futs[u].consumed

\* no pause between batches
SleepsNever(q) == FALSE

\* line 1877 / 2024: the pause is taken when URLs are left in the queue
SleepsAfterBatch(q) == q # {}

\* lines 1875-1878 / 2023-2025: the pool is joined, then the pause
EndBatch ==
    /\ pc = "wait"
    /\ BatchComplete(futures)
    /\ slept' = SleepsAfterBatch(queue)
    /\ pc' = "loop"
    /\ UNCHANGED <<siteVars, enableDynamic, renderer, redirectCache, runVars,
                   frontierVars, futures, cur, idx, stats, dispatched,
                   refetched>>

Next ==
    \/ CrawlWebsite
    \/ DiscoverLinksOnly
    \/ \E batch \in SUBSET queue : StartBatch(batch)
    \/ Finish
    \/ \E u \in DOMAIN futures : FetchPage(u)
    \/ \E u \in DOMAIN futures : RenderEnter(u)
    \/ \E u \in DOMAIN futures : RenderDynamic(u)
    \/ \E u \in DOMAIN futures : FetchPageForLinksOnly(u)
    \/ \E u \in DOMAIN futures : AsCompleted(u)
    \/ ProcessLink
    \/ \E w \in DOMAIN futures : ProcessLinkRace(w)
    \/ EndBatch

Spec == Init /\ [][Next]_vars

\* every submitted task runs to its end, and the orchestrating thread
\* keeps running until the call returns
WorkerStep ==
    \E u \in DOMAIN futures :
        \/ FetchPage(u)
        \/ RenderEnter(u)
        \/ RenderDynamic(u)
        \/ FetchPageForLinksOnly(u)

OrchestratorStep ==
    \/ \E batch \in SUBSET queue : StartBatch(batch)
    \/ Finish
    \/ \E u \in DOMAIN futures : AsCompleted(u)
    \/ ProcessLink
    \/ EndBatch

FairSpec == Spec /\ WF_vars(WorkerStep) /\ WF_vars(OrchestratorStep)

TypeOK ==
    /\ pc \in {"idle", "loop", "wait", "links", "done"}
    /\ mode \in {"none", "crawl", "discover"}
    /\ runs \in 0..MaxRuns

(***************************************************************************)
(* The detector on its own: a page and the thresholds are given, and       *)
(* detect_js_dependency is called on them.                                 *)
(***************************************************************************)
\* a crawler on which no crawl was started
CrawlerIdle ==
    /\ site = SiteDown
    /\ cfg = [maxPages |-> 1, maxWorkers |-> 1, followExternal |-> FALSE,
              followRedirects |-> TRUE, normalizeUrls |-> FALSE]
    /\ enableDynamic = TRUE
    /\ renderer = NoBrowser
    /\ redirectCache = << >>
    /\ runs = 0
    /\ prev = NoPrev
    /\ mode = "none"
    /\ pc = "idle"
    /\ startUrl = Root
    /\ visited = {}
    /\ queue = {}
    /\ failed = {}
    /\ pages = << >>
    /\ allLinks = {}
    /\ futures = << >>
    /\ cur = Root
    /\ idx = 0
    /\ stats = NoStats
    /\ dispatched = {}
    /\ refetched = {}
    /\ slept = FALSE

DetectInit ==
    /\ CrawlerIdle
    /\ MergerIdle
    /\ JoinerIdle
    /\ html \in HtmlPages
    /\ jsCfg \in JsConfigs
    /\ verdict = NoVerdict

Detect ==
    /\ ~verdict.called
    /\ verdict' = DetectJsDependency(html, jsCfg)
    /\ UNCHANGED <<crawlVars, html, jsCfg, mergeVars, joinVars>>

DetectNext == Detect

DetectSpec == DetectInit /\ [][DetectNext]_vars

(***************************************************************************)
(* The extractor on its own: extract_structured_data on a document and a   *)
(* list of intercepted objects, one priority stage after the other.        *)
(***************************************************************************)
MergeInit ==
    /\ CrawlerIdle
    /\ DetectorIdle
    /\ JoinerIdle
    /\ doc \in Documents
    /\ intercepted \in SeqsUpTo(JsonObjects, MaxItems)
    /\ bundle = EmptyBundle
    /\ stage = 0

Method(found, name) == IF found THEN <<name>> ELSE << >>

\* lines 186-189
InterceptedStage ==
    /\ stage = 0
    /\ bundle' = IF intercepted # << >>
                 THEN [bundle EXCEPT
                         !.jsonLd = ExtendJsonLd(@, intercepted),
                         !.extractionMethods = @ \o <<"intercepted_json_ld">>]
                 ELSE bundle
    /\ stage' = 1
    /\ UNCHANGED <<crawlVars, detectVars, joinVars, doc, intercepted>>

\* lines 191-195
PageJsonLdStage ==
    /\ stage = 1
    /\ LET found == ExtractJsonLd(doc.scripts)
       IN bundle' = IF found # << >>
                    THEN [bundle EXCEPT
                            !.jsonLd = ExtendJsonLd(@, found),
                            !.extractionMethods = @ \o <<"page_json_ld">>]
                    ELSE bundle
    /\ stage' = 2
    /\ UNCHANGED <<crawlVars, detectVars, joinVars, doc, intercepted>>

\* lines 197-201
MicrodataStage ==
    /\ stage = 2
    /\ bundle' = IF doc.microdata # << >>
                 THEN [bundle EXCEPT
                         !.microdata = doc.microdata,
                         !.extractionMethods = @ \o <<"microdata">>]
                 ELSE bundle
    /\ stage' = 3
    /\ UNCHANGED <<crawlVars, detectVars, joinVars, doc, intercepted>>

\* lines 203-207
MetaStage ==
    /\ stage = 3
    /\ bundle' = [bundle EXCEPT
                     !.metaTags = doc.metaTags,
                     !.opengraph = doc.opengraph,
                     !.extractionMethods = @ \o
                         Method(doc.metaTags # EmptyDict
                                  \/ doc.opengraph # EmptyDict, "meta_tags")]
    /\ stage' = 4
    /\ UNCHANGED <<crawlVars, detectVars, joinVars, doc, intercepted>>

\* lines 209-213: dict.update with the keys of the fallback
FallbackStage ==
    /\ stage = 4
    /\ LET fallback == IntelligentFallbackParse(doc)
       IN bundle' = [bundle EXCEPT
                       !.menuItems = fallback.menuItems,
                       !.products = fallback.products,
                       !.organization = fallback.organization,
                       !.extractionMethods = @ \o <<"intelligent_fallback">>]
    /\ stage' = 5
    /\ UNCHANGED <<crawlVars, detectVars, joinVars, doc, intercepted>>

MergeNext ==
    \/ InterceptedStage
    \/ PageJsonLdStage
    \/ MicrodataStage
    \/ MetaStage
    \/ FallbackStage

MergeSpec == MergeInit /\ [][MergeNext]_vars

(***************************************************************************)
(* URL repair on its own: a candidate is joined with a base URL, and the   *)
(* result is joined with the same base URL once more.                      *)
(***************************************************************************)
JoinInit ==
    /\ CrawlerIdle
    /\ DetectorIdle
    /\ MergerIdle
    /\ baseUrl \in Bases
    /\ candidate \in Candidates(MaxSegments)
    /\ joined = Null
    /\ rejoined = Null
    /\ joinPc = "start"

Join ==
    /\ joinPc = "start"
    /\ joined' = SmartUrlJoin(baseUrl, candidate)
    /\ joinPc' = "joined"
    /\ UNCHANGED <<crawlVars, detectVars, mergeVars, baseUrl, candidate,
                   rejoined>>

Rejoin ==
    /\ joinPc = "joined"
    /\ joined # Null
    /\ rejoined' = SmartUrlJoin(baseUrl, joined)
    /\ joinPc' = "rejoined"
    /\ UNCHANGED <<crawlVars, detectVars, mergeVars, baseUrl, candidate,
                   joined>>

JoinNext == Join \/ Rejoin

JoinSpec == JoinInit /\ [][JoinNext]_vars

(***************************************************************************)
(* What the site gives, independently of a run.                            *)
(***************************************************************************)
\* the fetch of u comes back without a page
FetchFails(u) ==
    LET f == StaticFetch(site, cfg.followRedirects, u)
    IN ~f.ok \/ f.resp.raises

\* the links a static page gives
StaticLinks(u) ==
    LET f == StaticFetch(site, cfg.followRedirects, u)
    IN IF FetchFails(u) THEN << >>
       ELSE ExtractLinks(f.resp.links, f.final, cfg)

RECURSIVE Closure(_)
Closure(S) ==
    LET nxt == S \cup UNION {Range(StaticLinks(u)) : u \in S}
    IN IF nxt = S THEN S ELSE Closure(nxt)

\* the URLs that can be reached from the start URL
Reachable == Closure({Root})

\* no reachable fetch fails, none redirects, none is rendered
PlainSite ==
    \A u \in Reachable :
        /\ ~FetchFails(u)
        /\ Bare(u) \notin DOMAIN site.loc
        /\ ~Resp(site, u).js

\* the fetches of the current batch that have not returned
InFlight == {u \in DOMAIN futures : futures[u].st # "done"}

\* u was submitted in this call and its result has been processed
Processed(u) ==
    /\ u \in dispatched
    /\ u \in DOMAIN futures => futures[u].consumed

(***************************************************************************)
(* C1: page cap.  On a site where no fetch fails or redirects and at least *)
(* maxPages URLs are reachable, the visited set of crawl_website never     *)
(* grows beyond maxPages and holds exactly maxPages URLs when the crawl    *)
(* returns.                                                                *)
(***************************************************************************)
PageCap ==
    (mode = "crawl" /\ PlainSite /\ Cardinality(Reachable) >= cfg.maxPages)
        => /\ Cardinality(visited) <= cfg.maxPages
           /\ pc = "done" => Cardinality(visited) = cfg.maxPages

(***************************************************************************)
(* C2: no refetch.  Within one call of crawl_website no URL is submitted   *)
(* to the pool twice; a URL whose fetch failed is not submitted again when *)
(* a later page links to it.                                               *)
(***************************************************************************)
NoRefetch == mode = "crawl" => refetched = {}

\* a failed URL is linked from a page that was processed, and the crawl
\* has returned
NoRefetchWitness ==
    /\ mode = "crawl"
    /\ pc = "done"
    /\ \E u \in failed \cap dispatched : \E i \in 1..Len(pages) :
          /\ pages[i].original # u
          /\ u \in Range(pages[i].links)

(***************************************************************************)
(* C3: bounded parallelism.  In crawl_website and discover_links_only at   *)
(* most maxWorkers fetches are in flight, and a batch is submitted only    *)
(* when no fetch of the previous batch is still in flight.                 *)
(***************************************************************************)
BoundedParallelism ==
    /\ [](Cardinality(InFlight) <= cfg.maxWorkers)
    /\ [][futures' # futures /\ pc = "loop" => InFlight = {}]_vars

\* a batch after the first one runs with all workers busy
BoundedParallelismWitness ==
    /\ cfg.maxWorkers > 1
    /\ Cardinality(InFlight) = cfg.maxWorkers
    /\ visited # {}
    /\ mode = "discover"

(***************************************************************************)
(* C4: redirect suppression, as claimed.  A link that equals the recorded  *)
(* redirect target of a URL whose fetch has already been done is never     *)
(* added to the queue by crawl_website.                                    *)
(***************************************************************************)
\* the GET of u has been done in this call
Fetched(u) ==
    /\ u \in dispatched
    /\ u \in DOMAIN futures => futures[u].st # "run"

RedirectTargetOfFetched(l) ==
    \E c \in DOMAIN redirectCache : redirectCache[c] = l /\ Fetched(c)

RedirectSuppressionFetched ==
    [][(mode = "crawl" /\ pc = "links")
          => \A l \in queue' \ queue : ~RedirectTargetOfFetched(l)]_vars

(***************************************************************************)
(* C4, amended.  A link that, when the orchestrator examines it, equals    *)
(* the recorded redirect target of a URL that is already in visited_urls   *)
(* is not added to the queue.                                              *)
(***************************************************************************)
RedirectSuppressionVisited ==
    [][(mode = "crawl" /\ pc = "links")
          => \A l \in queue' \ queue :
                ~\E c \in DOMAIN redirectCache :
                    redirectCache[c] = l /\ c \in visited]_vars

\* a link that could be crawled was examined and kept out of the queue
\* because it is the redirect target of a visited URL
RedirectSuppressionWitness ==
    /\ mode = "crawl"
    /\ Cardinality(visited) < cfg.maxPages
    /\ \E l \in allLinks :
          /\ l \notin visited \cup failed \cup queue \cup dispatched
          /\ IsDuplicate(l, redirectCache, visited)

(***************************************************************************)
(* C5: domain confinement.  When followExternalLinks is false every URL    *)
(* that crawl_website queues or submits has the host of the start URL.     *)
(***************************************************************************)
DomainConfinement ==
    (mode = "crawl" /\ ~cfg.followExternal)
        => \A u \in queue \cup dispatched : Netloc(u) = Netloc(startUrl)

(***************************************************************************)
(* C6: a content-type mismatch is a skip.  A URL whose response is not     *)
(* HTML is not put in failed_urls and not counted in urls_failed by        *)
(* crawl_website.                                                          *)
(***************************************************************************)
ContentTypeMismatch(u) ==
    LET f == StaticFetch(site, cfg.followRedirects, u)
    IN f.resp.status # 0 /\ ~RaisesForStatus(f.resp.status) /\ ~f.resp.html

MismatchIsSkip ==
    mode = "crawl"
        => /\ \A u \in dispatched : ContentTypeMismatch(u) => u \notin failed
           /\ pc = "done" =>
                stats.urlsFailed =
                    Cardinality({u \in failed : ~ContentTypeMismatch(u)})

DeterministicAllLinks ==
    (/\ mode = "crawl"
     /\ pc = "done"
     /\ prev.mode = "crawl"
     /\ cfg.normalizeUrls
     /\ PlainSite)
        => allLinks = prev.allLinks

(***************************************************************************)
(* C11: same frontier algorithm.  Given the same results of the fetches,   *)
(* every step of the orchestrator of discover_links_only changes visited,  *)
(* failed and the queue exactly as the step of crawl_website does: the     *)
(* final URL of a fetched page becomes visited, and a link that is the     *)
(* known redirect target of a visited URL is not queued.                   *)
(***************************************************************************)
\* lines 1820 and 1830: visited_urls after the result of u is taken
CrawlVisitedAfter(u) ==
    IF futures[u].ok THEN visited \cup {u, futures[u].url}
    ELSE visited \cup {u}

\* lines 1841-1855: urls_to_visit after the link is examined
CrawlQueueAfter(link) ==
    IF /\ Crawlable(link)
       /\ ~IsDuplicate(link, redirectCache, visited)
       /\ link \notin queue
    THEN queue \cup {link} ELSE queue

SameFrontierAlgorithm ==
    [][mode = "discover" =>
          /\ \A u \in DOMAIN futures :
                (pc = "wait" /\ u \in DOMAIN futures'
                    /\ ~futures[u].consumed /\ futures'[u].consumed)
                  => visited' = CrawlVisitedAfter(u)
          /\ (pc = "links" /\ (pc' # pc \/ idx' # idx))
                  => queue' = CrawlQueueAfter(CurLink)]_vars

(***************************************************************************)
(* C12: the decision rule.  Whenever detect_js_dependency computes a       *)
(* score, it returns true iff the score reaches the minimum score (raised  *)
(* by 15 in strict mode), or reaches the conservative score with a strong  *)
(* noscript or minimal-content entry in the evidence, or is at least 70;   *)
(* a score of 70 or more gives true whatever the thresholds.               *)
(***************************************************************************)
RaisedMinScore ==
    IF jsCfg.strictMode THEN jsCfg.minScore + 15 ELSE jsCfg.minScore

HasStrongEntry ==
    \E i \in 1..Len(verdict.evidence) :
        verdict.evidence[i] \in {"Strong noscript indicator",
                                 "Minimal content"}

DecisionRule ==
    verdict.scored =>
        /\ verdict.isJs <=>
              \/ verdict.score >= RaisedMinScore
              \/ verdict.score >= jsCfg.conservativeScore /\ HasStrongEntry
              \/ verdict.score >= 70
        /\ verdict.score >= 70 => verdict.isJs

\* a score of 70 or more that is below the raised minimum score and has
\* no strong entry to go with the conservative score
DecisionRuleWitness ==
    /\ verdict.scored
    /\ verdict.score >= 70
    /\ verdict.score < RaisedMinScore
    /\ ~(verdict.score >= jsCfg.conservativeScore /\ HasStrongEntry)
    /\ verdict.isJs

(***************************************************************************)
(* C13: the noscript page.  For a page whose only content is a <noscript>  *)
(* element with an 'enable javascript' phrase, detect_js_dependency        *)
(* returns true and has the strong noscript entry in its evidence, for     *)
(* every minimum score, conservative score and strict mode.                *)
(***************************************************************************)
NoscriptOnly(page) ==
    \E b \in BOOLEAN :
        page = [BlankPage EXCEPT !.body = b, !.noscripts = <<EnableJs>>]

NoscriptPage ==
    (verdict.called /\ NoscriptOnly(html)) =>
        /\ verdict.isJs
        /\ \E i \in 1..Len(verdict.evidence) :
              verdict.evidence[i] = "Strong noscript indicator"

\* the noscript page under the highest thresholds
NoscriptPageWitness ==
    /\ verdict.called
    /\ NoscriptOnly(html)
    /\ jsCfg.strictMode
    /\ jsCfg.minScore = 90
    /\ jsCfg.conservativeScore = 80

(***************************************************************************)
(* C14: the static page.  For a page on which no positive signal fires and *)
(* static signals fire, the score is at most 0 and detect_js_dependency    *)
(* returns false under the default thresholds (45 and 30), in strict and   *)
(* in non-strict mode.                                                     *)
(***************************************************************************)
NoPositiveSignal(page) ==
    \A i \in 1..Len(Signals(page)) : ~Signals(page)[i].fires

DefaultThresholds ==
    /\ jsCfg.minScore = DefaultJsConfig.minScore
    /\ jsCfg.conservativeScore = DefaultJsConfig.conservativeScore

StaticPage ==
    (/\ verdict.called
     /\ ~html.empty
     /\ NoPositiveSignal(html)
     /\ CheckStaticSiteIndicators(html) > 0
     /\ DefaultThresholds)
        => /\ verdict.score <= 0
           /\ ~verdict.isJs

\* a long article, three navigation links and a form, in strict mode
StaticPageWitness ==
    /\ verdict.called
    /\ html.words = 500
    /\ html.articleLen > 200
    /\ html.navLinks = 3
    /\ html.forms = 1
    /\ NoPositiveSignal(html)
    /\ DefaultThresholds
    /\ jsCfg.strictMode
    /\ verdict.score = -20

(***************************************************************************)
(* C15: merge priority.  In the bundle that extract_structured_data        *)
(* returns, the intercepted JSON-LD objects come first in jsonLd, in their *)
(* order and with every field unchanged, followed by the embedded JSON-LD  *)
(* objects; no stage removes or changes an entry or a field that an        *)
(* earlier stage wrote.                                                    *)
(***************************************************************************)
IsPrefix(a, b) == Len(a) <= Len(b) /\ SubSeq(b, 1, Len(a)) = a

\* the objects of the scripts that hold an object or an array of objects
EmbeddedObjects ==
    LET usable == SelectSeq(doc.scripts,
                            LAMBDA x : x.kind \in {"dict", "list"})
    IN ExtractJsonLd(usable)

MergePriority ==
    /\ [](stage = 5 =>
            /\ IsPrefix(intercepted, bundle.jsonLd)
            /\ SubSeq(bundle.jsonLd, Len(intercepted) + 1,
                      Len(bundle.jsonLd)) = EmbeddedObjects)
    /\ [][/\ IsPrefix(bundle.jsonLd, bundle'.jsonLd)
          /\ IsPrefix(bundle.extractionMethods, bundle'.extractionMethods)
          /\ stage >= 3 => bundle'.microdata = bundle.microdata
          /\ stage >= 4 => /\ bundle'.metaTags = bundle.metaTags
                           /\ bundle'.opengraph = bundle.opengraph]_vars

\* the bundle of a page that embeds the entity the network also gave, with
\* other fields, and on which every stage found something
MergePriorityWitness ==
    /\ stage = 5
    /\ intercepted = <<LatteIntercepted>>
    /\ \E i \in 1..Len(bundle.jsonLd) : bundle.jsonLd[i] = LatteEmbedded
    /\ Len(bundle.extractionMethods) = 5

(***************************************************************************)
(* C16: idempotence of the join.  Whenever _smart_url_join gives a URL for *)
(* a candidate, joining that URL with the same base gives the same URL     *)
(* again; a candidate that is an absolute http(s) URL (a URL has no blanks *)
(* around it) comes back unchanged.                                        *)
(***************************************************************************)
AbsoluteHttpUrl(c) == StartsWithHttp(c) /\ Strip(c) = c

SmartJoinIdempotent ==
    /\ joinPc = "rejoined" => rejoined = joined
    /\ (joinPc # "start" /\ AbsoluteHttpUrl(candidate)) => joined = candidate

\* a protocol-relative candidate joined twice with an http base
SmartJoinIdempotentWitness ==
    /\ joinPc = "rejoined"
    /\ baseUrl = <<Http, A, "/p">>
    /\ candidate = <<"//", B, "/x">>
    /\ rejoined = <<Http, B, "/x">>

(***************************************************************************)
(* C17: duplicated-domain repair, as claimed.  For every candidate that    *)
(* does not start with http:// or https:// and contains the base domain    *)
(* more than once, _smart_url_join gives scheme://baseDomain followed by   *)
(* the text after the last occurrence of the base domain in the candidate. *)
(***************************************************************************)
DuplicateRepairAll ==
    (/\ joinPc # "start"
     /\ ~StartsWithHttp(candidate)
     /\ Count(candidate, BaseDomain(baseUrl)) > 1)
        => joined = <<BaseScheme(baseUrl), BaseDomain(baseUrl)>>
                    \o LastPartAfter(candidate, BaseDomain(baseUrl))

(***************************************************************************)
(* C17, amended.  For every candidate that, once the blanks around it are  *)
(* stripped, starts neither with http://, https:// nor with // and         *)
(* contains the base domain more than once, _smart_url_join gives          *)
(* scheme://baseDomain followed by the text after the last occurrence of   *)
(* the base domain in the stripped candidate.                              *)
(***************************************************************************)
DuplicateRepair ==
    LET url == Strip(candidate)
    IN (/\ joinPc # "start"
        /\ ~StartsWithHttp(url)
        /\ ~StartsWith(url, <<"//">>)
        /\ Count(url, BaseDomain(baseUrl)) > 1)
           => joined = <<BaseScheme(baseUrl), BaseDomain(baseUrl)>>
                       \o LastPartAfter(url, BaseDomain(baseUrl))

\* www.a.com/x/www.a.com/x/y joined with https://a.com
DuplicateRepairWitness ==
    /\ joinPc # "start"
    /\ baseUrl = <<Https, A>>
    /\ candidate = <<"www.", A, "/x", "www.", A, "/x", "/y">>
    /\ joined = <<Https, A, "/x", "/y">>

(***************************************************************************)
(* C18: status gating of the static fetch.  _fetch_static_content gives a  *)
(* page only for a response whose status code is in 200..299, whether      *)
(* redirects are followed or a 3xx response is received as it is.          *)
(***************************************************************************)
StaticStatusGating ==
    mode = "crawl" =>
        \A u \in DOMAIN futures :
            (futures[u].st = "done" /\ futures[u].ok) =>
                LET f == StaticFetch(site, cfg.followRedirects, u)
                IN f.resp.status >= 200 /\ f.resp.status <= 299

(***************************************************************************)
(* C19: single-threaded frontier mutation.  During crawl_website no step   *)
(* of a worker task writes the queue, visited, failed or the redirect      *)
(* cache; the orchestrating thread writes them only when no fetch of the   *)
(* current batch is in flight, and reads the redirect cache only then.     *)
(***************************************************************************)
\* a task of the pool has moved on
WorkerStepTaken ==
    \E u \in DOMAIN futures \cap DOMAIN futures' :
        futures'[u].st # futures[u].st

\* the loop of line 1847 is entered for the link being examined
ReadsRedirectCache ==
    /\ pc = "links"
    /\ pc' # pc \/ idx' # idx \/ failed' # failed
    /\ Crawlable(CurLink)

SingleThreadedFrontier ==
    [][(mode = "crawl" /\ pc \in {"wait", "links"}) =>
          /\ WorkerStepTaken =>
                UNCHANGED <<queue, visited, failed, redirectCache>>
          /\ <<queue, visited, failed, redirectCache>>'
                # <<queue, visited, failed, redirectCache>> => InFlight = {}
          /\ ReadsRedirectCache => InFlight = {}]_vars

(***************************************************************************)
(* C20: renderer exclusivity.  From the moment a render request has        *)
(* launched its browser (__enter__) until it releases it (__exit__), the   *)
(* handles the renderer holds are the ones this request launched, and they *)
(* are open: no other request has replaced or closed them.                 *)
(***************************************************************************)
RendererExclusive ==
    mode = "crawl" =>
        \A u \in DOMAIN futures :
            (futures[u].st = "rendering" /\ futures[u].launch = "ok")
                => (renderer.owner = u /\ renderer.open)

(***************************************************************************)
(* C21: renderer cleanup.  When crawl_website returns, every browser that  *)
(* a render request of the crawl started has been closed: the renderer     *)
(* holds no open browser and none was left without a reference.            *)
(***************************************************************************)
RendererCleanup ==
    (mode = "crawl" /\ pc = "done") => (~renderer.open /\ renderer.lost = {})

(***************************************************************************)
(* C22: no re-enqueue of dequeued URLs.  Once a URL has been drained from  *)
(* the queue and submitted in a batch, no later step of the same call of   *)
(* crawl_website adds it to the queue again, whichever page of the batch   *)
(* completes first.                                                        *)
(***************************************************************************)
NoReEnqueue ==
    [][(mode = "crawl" /\ pc = "links")
          => (queue' \ queue) \cap dispatched = {}]_vars

(***************************************************************************)
(* C23: the configuration is immutable.  No step of crawl_website changes  *)
(* a field of the CrawlConfig of the crawler, so the configuration is the  *)
(* same when the call returns as when it started, also when the browser    *)
(* cannot be started.                                                      *)
(***************************************************************************)
ConfigImmutable ==
    [][mode = "crawl" => <<cfg, enableDynamic>>' = <<cfg, enableDynamic>>]_vars

(***************************************************************************)
(* C24: extractionMethods records the contributing stages only.  In the    *)
(* bundle extract_structured_data returns, the name of a stage is in       *)
(* extractionMethods iff the stage found at least one datum in the page,   *)
(* and the names are in priority order.                                    *)
(***************************************************************************)
ContributingStagesOnly ==
    stage = 5 =>
        bundle.extractionMethods =
            Method(intercepted # << >>, "intercepted_json_ld")
            \o Method(ExtractJsonLd(doc.scripts) # << >>, "page_json_ld")
            \o Method(doc.microdata # << >>, "microdata")
            \o Method(doc.metaTags # EmptyDict \/ doc.opengraph # EmptyDict,
                      "meta_tags")
            \o Method(doc.products # << >> \/ doc.organization # EmptyDict,
                      "intelligent_fallback")

(***************************************************************************)
(* C25: pacing between batches.  When a batch of crawl_website is          *)
(* complete the orchestrator sleeps delay_between_requests iff the queue   *)
(* is not empty, and every batch after the first is submitted after such a *)
(* pause, taken once the previous batch was complete.                      *)
(***************************************************************************)
InterBatchPacing ==
    [][mode = "crawl" =>
          /\ (pc = "wait" /\ pc' = "loop") => (slept' <=> queue # {})
          /\ (pc = "loop" /\ pc' = "wait" /\ dispatched # {}) => slept]_vars

\* a batch has been processed, the pause was taken and the next batch is
\* about to be submitted
InterBatchPacingWitness ==
    /\ mode = "crawl"
    /\ pc = "loop"
    /\ LoopCondition
    /\ Len(pages) >= 2
    /\ slept

(***************************************************************************)
(* C26: extracted and failed are exclusive.  In every state of             *)
(* crawl_website, a URL that was submitted and for which a page is         *)
(* recorded in all_pages is not in failed_urls, however the writes of the  *)
(* workers to the redirect cache interleave with the processing of the     *)
(* completed fetches.                                                      *)
(***************************************************************************)
ExtractedNotFailed ==
    mode = "crawl" =>
        \A i \in 1..Len(pages) :
            pages[i].original \in dispatched => pages[i].original \notin failed

(***************************************************************************)
(* C27: exhaustiveness under the cap.  When crawl_website returns with     *)
(* fewer than maxPages visited URLs, every URL of all_links is in          *)
(* visited_urls or in failed_urls: no discovered link is left unfetched,   *)
(* also not one that was suppressed as the redirect target of a URL whose  *)
(* fetch failed.                                                           *)
(***************************************************************************)
ExhaustiveUnderCap ==
    (mode = "crawl" /\ pc = "done" /\ Cardinality(visited) < cfg.maxPages)
        => allLinks \subseteq visited \cup failed

(***************************************************************************)
(* C28: unique pages.  In the result of crawl_website no two entries of    *)
(* pages have the same url, also when several URLs redirect to one final   *)
(* URL or when the target of a redirect is linked directly as well.        *)
(***************************************************************************)
UniquePages ==
    (mode = "crawl" /\ pc = "done") =>
        \A i, j \in 1..Len(pages) : pages[i].url = pages[j].url => i = j

(***************************************************************************)
(* C29: overshoot bound.  In every call of crawl_website at most           *)
(* maxPages + maxWorkers - 1 URLs are submitted for fetching, none of them *)
(* twice, and visited_urls holds at most maxPages - 1 + 2 * maxWorkers     *)
(* URLs when the call returns: each fetch adds the URL it was given and at *)
(* most one final URL.                                                     *)
(***************************************************************************)
OvershootBound ==
    mode = "crawl" =>
        /\ refetched = {}
        /\ Cardinality(dispatched) <= cfg.maxPages + cfg.maxWorkers - 1
        /\ pc = "done" =>
              Cardinality(visited) <= cfg.maxPages - 1 + 2 * cfg.maxWorkers

\* a crawl has returned after submitting as many URLs as the bound allows,
\* and a final URL has taken visited_urls beyond the submitted URLs
OvershootBoundWitness ==
    /\ mode = "crawl"
    /\ pc = "done"
    /\ cfg.maxWorkers > 1
    /\ Cardinality(dispatched) = cfg.maxPages + cfg.maxWorkers - 1
    /\ Cardinality(visited) > Cardinality(dispatched)
    /\ Cardinality(visited) > cfg.maxPages

(***************************************************************************)
(* C30: relative links stay on the base host.  For a candidate without a   *)
(* scheme that does not start with //, # , ? or www. and does not contain  *)
(* the base domain, also one whose first segment is a file name with an    *)
(* extension, _smart_url_join returns what urljoin gives for the base URL  *)
(* and the candidate, and its host is the host of the base URL.            *)
(***************************************************************************)
\* the candidate is a relative reference, without blanks around it
RelativeCandidate(base, c) ==
    /\ c # << >>
    /\ Strip(c) = c
    /\ Head(c) \notin {Https, Http, "mailto:", "//", "#s", "?q", "www."}
    /\ Count(c, BaseDomain(base)) = 0

RelativeStaysOnHost ==
    (joinPc # "start" /\ RelativeCandidate(baseUrl, candidate))
        => /\ joined = UrlJoin(baseUrl, candidate)
           /\ joined[2] = BaseDomain(baseUrl)

====
